---- MODULE Spec2Model ----
(***************************************************************************)
(* Model of "Tag All+" (script.py): category selection, element            *)
(* collection, view selection and the tagger, run inside one host          *)
(* transaction.  The host document is modelled by the facts the script     *)
(* reads (categories, elements, bounding boxes, views, existing tags) and  *)
(* by the effects of the calls it makes (tag creation, deletion,           *)
(* transaction start / commit / rollback).                                 *)
(***************************************************************************)
EXTENDS Integers, Sequences, FiniteSets, TLC

(* ------------------------------------------------------------------ *)
(* Bounds of the model                                                 *)
(* ------------------------------------------------------------------ *)
NumElems == 3
NumViews == 4
MaxRuns == 2

(* ------------------------------------------------------------------ *)
(* The host document: categories, elements, views                      *)
(* ------------------------------------------------------------------ *)
None == "None"

\* doc.Settings.Categories, in the host's iteration order
ProjectCategories == <<"Doors", "Windows", "Views">>

\* config.load_configs(): the static allow-list of taggable category names
SpecificCategories == {"Doors", "Windows", "Rooms"}

\* cat.AllowsBoundParameters
AllowsBoundParameters(c) == c # "Views"

\* The placed (non-type) elements of the project, by integer id
Elements == 1 .. NumElems

\* element.Category.Name
Category(e) == IF e % 2 = 1 THEN "Doors" ELSE "Windows"

\* The label the host derives from the element's parameters (tag.TagText)
TagText(e) == IF e % 3 = 1 THEN <<" ", " ">>
              ELSE IF e % 3 = 2 THEN <<" ", "W", " ">>
              ELSE <<"D">>

\* bbox of an element that has one; extents are even so that 0.5 * extent is exact
BoundingBox(e) == [Min |-> <<2 * e, 0, 0>>, Max |-> <<2 * e + 4, 2, 6>>]

\* Views of the project
AllViews == 1 .. NumViews

ViewType(v) == IF v % 3 = 1 THEN "FloorPlan"
               ELSE IF v % 3 = 2 THEN "Elevation"
               ELSE "ThreeD"

\* v.IsTemplate
IsTemplate(v) == v % 4 = 0

\* FilteredElementCollector(doc, view.Id).OfCategoryId(..): the elements the view shows
VisibleIn(v, e) == (v + e) % 3 # 1

ToggleSettings == [toggle_visibility : BOOLEAN,
                   check_blank_tag : BOOLEAN,
                   tag_windows_in_plan : BOOLEAN]

RevitVersions == {2021, 2023}

\* Which elements the host reports without a bounding box
BBoxAbsentChoices == {{}, {NumElems}}

(* ------------------------------------------------------------------ *)
(* Pure helpers                                                        *)
(* ------------------------------------------------------------------ *)
RECURSIVE LStrip(_)
LStrip(s) == IF s = <<>> THEN <<>>
             ELSE IF Head(s) = " " THEN LStrip(Tail(s)) ELSE s

RECURSIVE RStrip(_)
RStrip(s) == IF s = <<>> THEN <<>>
             ELSE IF s[Len(s)] = " " THEN RStrip(SubSeq(s, 1, Len(s) - 1)) ELSE s

\* str.strip()
Strip(s) == RStrip(LStrip(s))

RECURSIVE FilterSeq(_, _)
FilterSeq(s, keep) == IF s = <<>> THEN <<>>
                      ELSE IF Head(s) \in keep
                           THEN <<Head(s)>> \o FilterSeq(Tail(s), keep)
                           ELSE FilterSeq(Tail(s), keep)

RECURSIVE Ascending(_, _)
Ascending(lo, hi) == IF lo > hi THEN <<>> ELSE <<lo>> \o Ascending(lo + 1, hi)

Range(s) == {s[i] : i \in 1 .. Len(s)}

\* category_names of select_categories
category_names == FilterSeq(ProjectCategories,
                            {c \in Range(ProjectCategories) :
                                c \in SpecificCategories /\ AllowsBoundParameters(c)})

\* available_views of select_views
target_view_types == {"FloorPlan", "Elevation", "Section"}

available_views == FilterSeq(Ascending(1, NumViews),
                             {v \in AllViews :
                                ViewType(v) \in target_view_types /\ ~IsTemplate(v)})

\* elements_collector of select_elements for one category
category_elements(c) == FilterSeq(Ascending(1, NumElems),
                                  {e \in Elements : Category(e) = c})

RECURSIVE CollectElements(_)
CollectElements(cats) == IF cats = <<>> THEN <<>>
                         ELSE category_elements(Head(cats)) \o CollectElements(Tail(cats))

\* bbox.Min + 0.5 * (bbox.Max - bbox.Min)
Midpoint(b) == <<b.Min[1] + (b.Max[1] - b.Min[1]) \div 2,
                 b.Min[2] + (b.Max[2] - b.Min[2]) \div 2,
                 b.Min[3] + (b.Max[3] - b.Min[3]) \div 2>>

(* ------------------------------------------------------------------ *)
(* State                                                               *)
(* ------------------------------------------------------------------ *)
VARIABLES
    toggle_settings,              \* config.load_toggle_settings()
    revit_version,                \* int(app.VersionNumber)
    tagTypeLoaded,                \* category -> is_tag_type_loaded(doc, category)
    bboxAbsent,                   \* elements whose get_BoundingBox(None) is None
    tags,                         \* view -> the IndependentTag objects of the view
    txn,                          \* status of Transaction t
    snapshot,                     \* the document's tags when t was started
    pc,                           \* position of the script
    run,                          \* number of the current execution of the script
    selected_categories,
    element_cache,
    selected_elements,
    selected_views,
    ignored_tag_types,
    already_tagged_element_ids,
    vi,                           \* position in "for view in selected_views"
    idx,                          \* position in "for idx, element in enumerate(elements)"
    log,                          \* kinds of error lines printed in this run
    elementErrors,                \* "Error processing element ID" lines printed, this run
    created,                      \* IndependentTag.Create calls that returned, this run
    deleted,                      \* doc.Delete calls that returned, this run
    invocations,                  \* calls of tag_elements_in_view, this run
    processed,                    \* iterations of the element loop begun, this run
    txEnds,                       \* Commit / RollBack calls that returned, this run
    approvals,                    \* prompts answered "yes", this run
    promptCat,                    \* category the last step showed the prompt for
    declined,                     \* the user answered "no" to a prompt, this run
    catDialog,                    \* outcome of the category dialog, this run
    viewDialog                    \* outcome of the view dialog, this run

env == <<toggle_settings, revit_version, tagTypeLoaded, bboxAbsent>>
selection == <<selected_categories, element_cache, selected_elements, selected_views>>
dialogs == <<catDialog, viewDialog>>
errorCount == <<elementErrors>>
vars == <<toggle_settings, revit_version, tagTypeLoaded, bboxAbsent, tags, txn,
          snapshot, pc, run, selected_categories, element_cache, selected_elements,
          selected_views, ignored_tag_types, already_tagged_element_ids, vi, idx,
          log, elementErrors, created, deleted, invocations, processed, txEnds,
          approvals, promptCat, declined, catDialog, viewDialog>>

Categories == Range(category_names)

\* A tag the tagger did not create (run 0)
ExistingTag(k, refs, ok) ==
    [id |-> <<0, 1, k>>, elems |-> refs, text |-> <<"T">>, leader |-> FALSE,
     mode |-> "TM_ADDBY_CATEGORY", orient |-> "Horizontal", point |-> <<0, 0, 0>>,
     readable |-> ok, run |-> 0]

\* Tags found in view 1 before the first run; a tag referencing several
\* elements exists only on hosts newer than 2021
ExistingTagChoices(version) ==
    {{}, {ExistingTag(1, {1}, TRUE), ExistingTag(2, {2}, FALSE), ExistingTag(3, {}, TRUE)}}
    \cup (IF version > 2021 THEN {{ExistingTag(4, {1, 2}, TRUE)}} ELSE {})

Init ==
    /\ toggle_settings \in ToggleSettings
    /\ revit_version \in RevitVersions
    /\ tagTypeLoaded \in [Categories -> BOOLEAN]
    /\ bboxAbsent \in BBoxAbsentChoices
    /\ \E pre \in ExistingTagChoices(revit_version) :
          tags = [v \in AllViews |-> IF v = 1 THEN pre ELSE {}]
    /\ txn = "none"
    /\ snapshot = tags
    /\ pc = "select_categories"
    /\ run = 1
    /\ selected_categories = <<>>
    /\ element_cache = [c \in {} |-> <<>>]
    /\ selected_elements = <<>>
    /\ selected_views = <<>>
    /\ ignored_tag_types = {}
    /\ already_tagged_element_ids = {}
    /\ vi = 1
    /\ idx = 1
    /\ log = {}
    /\ elementErrors = 0
    /\ created = 0
    /\ deleted = 0
    /\ invocations = 0
    /\ processed = 0
    /\ txEnds = 0
    /\ approvals = 0
    /\ promptCat = None
    /\ declined = FALSE
    /\ catDialog = "none"
    /\ viewDialog = "none"

(* ------------------------------------------------------------------ *)
(* select_categories, select_elements, select_views                    *)
(* ------------------------------------------------------------------ *)
\* forms.SelectFromList.show returned a list of names
SelectCategoriesOk ==
    /\ UNCHANGED errorCount
    /\ pc = "select_categories"
    /\ \E chosen \in SUBSET Categories :
          selected_categories' = FilterSeq(category_names, chosen)
    /\ catDialog' = "confirmed"
    /\ pc' = "select_elements"
    /\ UNCHANGED <<env, tags, txn, snapshot, run, element_cache, selected_elements,
                   selected_views, ignored_tag_types, already_tagged_element_ids, vi, idx,
                   log, created, deleted, invocations, processed, txEnds, approvals,
                   promptCat, declined, viewDialog>>

\* forms.SelectFromList.show returned None: SystemExit passes "except Exception"
\* and is swallowed by the driver's "except SystemExit"
SelectCategoriesCancel ==
    /\ UNCHANGED errorCount
    /\ pc = "select_categories"
    /\ catDialog' = "cancelled"
    /\ pc' = "done"
    /\ UNCHANGED <<env, tags, txn, snapshot, run, selection, ignored_tag_types,
                   already_tagged_element_ids, vi, idx, log, created, deleted,
                   invocations, processed, txEnds, approvals, promptCat, declined,
                   viewDialog>>

\* A host call of select_categories raises: logged, re-raised, logged by the driver
SelectCategoriesError ==
    /\ UNCHANGED errorCount
    /\ pc = "select_categories"
    /\ catDialog' = "failed"
    /\ log' = log \cup {"Error in select_categories", "General Error"}
    /\ pc' = "done"
    /\ UNCHANGED <<env, tags, txn, snapshot, run, selection, ignored_tag_types,
                   already_tagged_element_ids, vi, idx, created, deleted,
                   invocations, processed, txEnds, approvals, promptCat, declined,
                   viewDialog>>

SelectElementsOk ==
    /\ UNCHANGED errorCount
    /\ pc = "select_elements"
    /\ selected_elements' = CollectElements(selected_categories)
    /\ element_cache' = [c \in Range(selected_categories) |-> category_elements(c)]
    /\ pc' = "select_views"
    /\ UNCHANGED <<env, tags, txn, snapshot, run, selected_categories, selected_views,
                   ignored_tag_types, already_tagged_element_ids, vi, idx, log, created,
                   deleted, invocations, processed, txEnds, approvals, promptCat,
                   declined, dialogs>>

SelectElementsError ==
    /\ UNCHANGED errorCount
    /\ pc = "select_elements"
    /\ selected_categories # <<>>
    /\ log' = log \cup {"Error in select_elements", "General Error"}
    /\ pc' = "done"
    /\ UNCHANGED <<env, tags, txn, snapshot, run, selection, ignored_tag_types,
                   already_tagged_element_ids, vi, idx, created, deleted,
                   invocations, processed, txEnds, approvals, promptCat, declined,
                   dialogs>>

SelectViewsOk ==
    /\ UNCHANGED errorCount
    /\ pc = "select_views"
    /\ \E chosen \in SUBSET Range(available_views) :
          selected_views' = FilterSeq(available_views, chosen)
    /\ viewDialog' = "confirmed"
    /\ pc' = "driver"
    /\ UNCHANGED <<env, tags, txn, snapshot, run, selected_categories, element_cache,
                   selected_elements, ignored_tag_types, already_tagged_element_ids, vi,
                   idx, log, created, deleted, invocations, processed, txEnds, approvals,
                   promptCat, declined, catDialog>>

SelectViewsCancel ==
    /\ UNCHANGED errorCount
    /\ pc = "select_views"
    /\ viewDialog' = "cancelled"
    /\ pc' = "done"
    /\ UNCHANGED <<env, tags, txn, snapshot, run, selection, ignored_tag_types,
                   already_tagged_element_ids, vi, idx, log, created, deleted,
                   invocations, processed, txEnds, approvals, promptCat, declined,
                   catDialog>>

SelectViewsError ==
    /\ UNCHANGED errorCount
    /\ pc = "select_views"
    /\ viewDialog' = "failed"
    /\ log' = log \cup {"Error in select_views", "General Error"}
    /\ pc' = "done"
    /\ UNCHANGED <<env, tags, txn, snapshot, run, selection, ignored_tag_types,
                   already_tagged_element_ids, vi, idx, created, deleted,
                   invocations, processed, txEnds, approvals, promptCat, declined,
                   catDialog>>

(* ------------------------------------------------------------------ *)
(* tag_elements_in_view: the decisions                                 *)
(* ------------------------------------------------------------------ *)
Least(S) == CHOOSE x \in S : \A y \in S : x <= y

\* Variant: the single-element reader on every host version
TaggedElementIdsSingle(tag, version) ==
    IF tag.elems = {} THEN {} ELSE {Least(tag.elems)}

\* What one existing tag contributes to already_tagged_element_ids
TaggedElementIds(tag, version) ==
    IF version <= 2021
    THEN (IF tag.elems = {} THEN {} ELSE {Least(tag.elems)})
    ELSE tag.elems

\* already_tagged_element_ids after the loop over existing_tags
ExistingTagIds(viewTags, version) ==
    UNION {TaggedElementIds(t, version) : t \in {u \in viewTags : u.readable}}

IsAlreadyTagged(e, ids) == e \in ids

\* Both skip tests passed: not yet tagged, and visible when that is checked
PastVisibility(v, e) ==
    /\ ~IsAlreadyTagged(e, already_tagged_element_ids)
    /\ toggle_settings.toggle_visibility => VisibleIn(v, e)

\* Variant: the approved categories are not consulted
PromptNeededEveryTime(e) == ~tagTypeLoaded[Category(e)]

PromptNeeded(e) ==
    /\ ~tagTypeLoaded[Category(e)]
    /\ Category(e) \notin ignored_tag_types

\* ignored_tag_types once the prompt, if shown, was answered "yes"
IgnoredAfterYes(e) ==
    IF PromptNeeded(e) THEN ignored_tag_types \cup {Category(e)} ELSE ignored_tag_types

\* Variant: the missing bounding box is not tested
get_projected_center_point_unchecked(e, absent) == Midpoint(BoundingBox(e))

get_projected_center_point(e, absent) ==
    IF e \in absent THEN None ELSE Midpoint(BoundingBox(e))

\* Variant: the view type is not tested
UseLeaderAnyView(e, v, ts) == Category(e) = "Windows" /\ ts.tag_windows_in_plan

UseLeader(e, v, ts) ==
    Category(e) = "Windows" /\ ViewType(v) = "FloorPlan" /\ ts.tag_windows_in_plan

\* Variant: the text is compared without strip()
DeleteBlankUnstripped(ts, text) == ts.check_blank_tag /\ text = <<>>

\* Variant: "or" in place of "and"
DeleteBlankEither(ts, text) == ts.check_blank_tag \/ Strip(text) = <<>>

DeleteBlank(ts, text) == ts.check_blank_tag /\ Strip(text) = <<>>

\* The object IndependentTag.Create returns
NewTag(r, v, e, lead, pt) ==
    [id |-> <<r, v, e>>, elems |-> {e}, text |-> TagText(e), leader |-> lead,
     mode |-> "TM_ADDBY_CATEGORY", orient |-> "Horizontal", point |-> pt,
     readable |-> TRUE, run |-> r]

\* Variant: only the element list is tested
DriverRunsElementsOnly(elems, views) == elems # <<>>

\* if selected_elements and selected_views
DriverRuns(elems, views) == elems # <<>> /\ views # <<>>

InLoop == pc = "elem" /\ idx <= Len(selected_elements)
CurView == selected_views[vi]
CurElem == selected_elements[idx]

(* ------------------------------------------------------------------ *)
(* The run driver and tag_elements_in_selected_views                   *)
(* ------------------------------------------------------------------ *)
\* Lists non-empty: the progress bar opens and t.Start() runs
StartTransaction ==
    /\ UNCHANGED errorCount
    /\ pc = "driver"
    /\ DriverRuns(selected_elements, selected_views)
    /\ txn' = "started"
    /\ snapshot' = tags
    /\ vi' = 1
    /\ pc' = "view"
    /\ UNCHANGED <<env, tags, run, selection, ignored_tag_types,
                   already_tagged_element_ids, idx, log, created, deleted, invocations,
                   processed, txEnds, approvals, promptCat, declined, dialogs>>

\* A list is empty: the script ends without calling the tagger
SkipTagging ==
    /\ UNCHANGED errorCount
    /\ pc = "driver"
    /\ ~DriverRuns(selected_elements, selected_views)
    /\ pc' = "done"
    /\ UNCHANGED <<env, tags, txn, snapshot, run, selection, ignored_tag_types,
                   already_tagged_element_ids, vi, idx, log, created, deleted,
                   invocations, processed, txEnds, approvals, promptCat, declined,
                   dialogs>>

\* tag_elements_in_view up to the element loop: version, toggles, covered set
BeginView ==
    /\ UNCHANGED errorCount
    /\ pc = "view"
    /\ vi <= Len(selected_views)
    /\ already_tagged_element_ids' = ExistingTagIds(tags[CurView], revit_version)
    /\ log' = IF \E t \in tags[CurView] : ~t.readable
              THEN log \cup {"Error processing tag"} ELSE log
    /\ invocations' = invocations + 1
    /\ idx' = 1
    /\ pc' = "elem"
    /\ promptCat' = None
    /\ UNCHANGED <<env, tags, txn, snapshot, run, selection, ignored_tag_types, vi,
                   created, deleted, processed, txEnds, approvals, declined, dialogs>>

\* A call before the element loop raises (version, toggles, tag collector):
\* "except Exception" rolls back and re-raises, the driver logs it
ViewError ==
    /\ UNCHANGED errorCount
    /\ pc = "view"
    /\ vi <= Len(selected_views)
    /\ invocations' = invocations + 1
    /\ tags' = snapshot
    /\ txn' = "rolledback"
    /\ txEnds' = txEnds + 1
    /\ log' = log \cup {"General Error"}
    /\ pc' = "done"
    /\ promptCat' = None
    /\ UNCHANGED <<env, snapshot, run, selection, ignored_tag_types,
                   already_tagged_element_ids, vi, idx, created, deleted, processed,
                   approvals, declined, dialogs>>

\* The element loop of one view is exhausted: back to the loop over views
EndView ==
    /\ UNCHANGED errorCount
    /\ pc = "elem"
    /\ idx > Len(selected_elements)
    /\ vi' = vi + 1
    /\ pc' = "view"
    /\ promptCat' = None
    /\ UNCHANGED <<env, tags, txn, snapshot, run, selection, ignored_tag_types,
                   already_tagged_element_ids, idx, log, created, deleted, invocations,
                   processed, txEnds, approvals, declined, dialogs>>

\* t.Commit() after the last view
Commit ==
    /\ UNCHANGED errorCount
    /\ pc = "view"
    /\ vi > Len(selected_views)
    /\ txn' = "committed"
    /\ txEnds' = txEnds + 1
    /\ pc' = "done"
    /\ UNCHANGED <<env, tags, snapshot, run, selection, ignored_tag_types,
                   already_tagged_element_ids, vi, idx, log, created, deleted,
                   invocations, processed, approvals, promptCat, declined, dialogs>>

\* t.Commit() raises: rolled back, re-raised, logged by the driver
CommitError ==
    /\ UNCHANGED errorCount
    /\ pc = "view"
    /\ vi > Len(selected_views)
    /\ tags' = snapshot
    /\ txn' = "rolledback"
    /\ txEnds' = txEnds + 1
    /\ log' = log \cup {"General Error"}
    /\ pc' = "done"
    /\ UNCHANGED <<env, snapshot, run, selection, ignored_tag_types,
                   already_tagged_element_ids, vi, idx, created, deleted, invocations,
                   processed, approvals, promptCat, declined, dialogs>>

(* ------------------------------------------------------------------ *)
(* tag_elements_in_view: one iteration of the element loop             *)
(* ------------------------------------------------------------------ *)
\* What an iteration that goes on to the next element leaves alone
LoopFrame == UNCHANGED <<env, txn, snapshot, pc, run, selection,
                         already_tagged_element_ids, vi, invocations, txEnds, declined,
                         dialogs>>

\* The prompt of this iteration, if any, was answered "yes"
PromptAnsweredYes ==
    /\ ignored_tag_types' = IgnoredAfterYes(CurElem)
    /\ approvals' = IF PromptNeeded(CurElem) THEN approvals + 1 ELSE approvals
    /\ promptCat' = IF PromptNeeded(CurElem) THEN Category(CurElem) ELSE None

NoPrompt ==
    /\ promptCat' = None
    /\ UNCHANGED <<ignored_tag_types, approvals>>

\* element.Id.IntegerValue in already_tagged_element_ids: continue
SkipAlreadyTagged ==
    /\ UNCHANGED errorCount
    /\ InLoop
    /\ IsAlreadyTagged(CurElem, already_tagged_element_ids)
    /\ idx' = idx + 1
    /\ processed' = processed + 1
    /\ NoPrompt
    /\ LoopFrame
    /\ UNCHANGED <<tags, log, created, deleted>>

\* toggle_visibility and not is_element_visible_in_view: continue
SkipNotVisible ==
    /\ UNCHANGED errorCount
    /\ InLoop
    /\ ~IsAlreadyTagged(CurElem, already_tagged_element_ids)
    /\ toggle_settings.toggle_visibility
    /\ ~VisibleIn(CurView, CurElem)
    /\ idx' = idx + 1
    /\ processed' = processed + 1
    /\ NoPrompt
    /\ LoopFrame
    /\ UNCHANGED <<tags, log, created, deleted>>

\* The prompt is answered "no" and forms.alert returns 'No': return from
\* tag_elements_in_view; the caller's loop goes on with the next view
DeclineReturn ==
    /\ UNCHANGED errorCount
    /\ InLoop
    /\ PastVisibility(CurView, CurElem)
    /\ PromptNeeded(CurElem)
    /\ promptCat' = Category(CurElem)
    /\ declined' = TRUE
    /\ processed' = processed + 1
    /\ vi' = vi + 1
    /\ pc' = "view"
    /\ UNCHANGED <<env, tags, txn, snapshot, run, selection, ignored_tag_types,
                   already_tagged_element_ids, idx, log, created, deleted, invocations,
                   txEnds, approvals, dialogs>>

\* The prompt is answered "no" and forms.alert(exitscript=True) exits the script:
\* SystemExit passes both "except Exception" clauses and is swallowed by the
\* driver's "except SystemExit"; neither Commit nor RollBack is called
DeclineExit ==
    /\ UNCHANGED errorCount
    /\ InLoop
    /\ PastVisibility(CurView, CurElem)
    /\ PromptNeeded(CurElem)
    /\ promptCat' = Category(CurElem)
    /\ declined' = TRUE
    /\ processed' = processed + 1
    /\ pc' = "done"
    /\ UNCHANGED <<env, tags, txn, snapshot, run, selection, ignored_tag_types,
                   already_tagged_element_ids, vi, idx, log, created, deleted,
                   invocations, txEnds, approvals, dialogs>>

\* center_point is None: continue
SkipNoBoundingBox ==
    /\ UNCHANGED errorCount
    /\ InLoop
    /\ PastVisibility(CurView, CurElem)
    /\ get_projected_center_point(CurElem, bboxAbsent) = None
    /\ PromptAnsweredYes
    /\ idx' = idx + 1
    /\ processed' = processed + 1
    /\ LoopFrame
    /\ UNCHANGED <<tags, log, created, deleted>>

\* IndependentTag.Create, then the blank-tag check
CreateTag ==
    /\ UNCHANGED errorCount
    /\ InLoop
    /\ PastVisibility(CurView, CurElem)
    /\ get_projected_center_point(CurElem, bboxAbsent) # None
    /\ PromptAnsweredYes
    /\ LET tag == NewTag(run, CurView, CurElem,
                         UseLeader(CurElem, CurView, toggle_settings),
                         get_projected_center_point(CurElem, bboxAbsent))
       IN  IF DeleteBlank(toggle_settings, tag.text)
           THEN /\ deleted' = deleted + 1
                /\ UNCHANGED tags
           ELSE /\ tags' = [tags EXCEPT ![CurView] = @ \cup {tag}]
                /\ UNCHANGED deleted
    /\ created' = created + 1
    /\ idx' = idx + 1
    /\ processed' = processed + 1
    /\ LoopFrame
    /\ UNCHANGED log

\* Where a host call of one iteration can raise
ErrorPoints == {"visibility", "family", "bbox", "create", "delete"}

\* The iteration reaches the call that raises
Reaches(point) ==
    CASE point = "visibility" ->
            /\ ~IsAlreadyTagged(CurElem, already_tagged_element_ids)
            /\ toggle_settings.toggle_visibility
      [] point = "family" -> PastVisibility(CurView, CurElem)
      [] point = "bbox" -> PastVisibility(CurView, CurElem)
      [] point = "create" ->
            /\ PastVisibility(CurView, CurElem)
            /\ get_projected_center_point(CurElem, bboxAbsent) # None
      [] point = "delete" ->
            /\ PastVisibility(CurView, CurElem)
            /\ get_projected_center_point(CurElem, bboxAbsent) # None
            /\ toggle_settings.check_blank_tag

\* Variant: no per-element try; the exception reaches "except Exception" of
\* tag_elements_in_selected_views, which rolls back, and then the driver
ElementErrorPropagates ==
    /\ InLoop
    /\ \E point \in ErrorPoints : Reaches(point)
    /\ elementErrors' = elementErrors + 1
    /\ processed' = processed + 1
    /\ tags' = snapshot
    /\ txn' = "rolledback"
    /\ txEnds' = txEnds + 1
    /\ log' = log \cup {"General Error"}
    /\ pc' = "done"
    /\ promptCat' = None
    /\ UNCHANGED <<env, snapshot, run, selection, ignored_tag_types,
                   already_tagged_element_ids, vi, idx, created, deleted, invocations,
                   approvals, declined, dialogs>>

\* A host call raises inside the per-element try: the line is logged and the
\* loop continues.  A failure of tag.TagText or doc.Delete leaves the new tag.
ElementError ==
    /\ InLoop
    /\ \E point \in ErrorPoints :
          /\ Reaches(point)
          /\ IF point \in {"visibility", "family"} THEN NoPrompt ELSE PromptAnsweredYes
          /\ IF point = "delete"
             THEN /\ tags' = [tags EXCEPT ![CurView] = @ \cup
                                {NewTag(run, CurView, CurElem,
                                        UseLeader(CurElem, CurView, toggle_settings),
                                        get_projected_center_point(CurElem, bboxAbsent))}]
                  /\ created' = created + 1
             ELSE UNCHANGED <<tags, created>>
    /\ log' = log \cup {"Error processing element"}
    /\ elementErrors' = elementErrors + 1
    /\ idx' = idx + 1
    /\ processed' = processed + 1
    /\ LoopFrame
    /\ UNCHANGED deleted

(* ------------------------------------------------------------------ *)
(* The script is executed again                                        *)
(* ------------------------------------------------------------------ *)
\* Module globals are re-initialised; a transaction the previous execution
\* left open is disposed by the host, which discards its changes
NewRun ==
    /\ pc = "done"
    /\ run < MaxRuns
    /\ run' = run + 1
    /\ tags' = IF txn = "started" THEN snapshot ELSE tags
    /\ snapshot' = tags'
    /\ txn' = "none"
    /\ pc' = "select_categories"
    /\ selected_categories' = <<>>
    /\ element_cache' = [c \in {} |-> <<>>]
    /\ selected_elements' = <<>>
    /\ selected_views' = <<>>
    /\ ignored_tag_types' = {}
    /\ already_tagged_element_ids' = {}
    /\ vi' = 1
    /\ idx' = 1
    /\ log' = {}
    /\ elementErrors' = 0
    /\ created' = 0
    /\ deleted' = 0
    /\ invocations' = 0
    /\ processed' = 0
    /\ txEnds' = 0
    /\ approvals' = 0
    /\ promptCat' = None
    /\ declined' = FALSE
    /\ catDialog' = "none"
    /\ viewDialog' = "none"
    /\ UNCHANGED env

Next ==
    \/ SelectCategoriesOk
    \/ SelectCategoriesCancel
    \/ SelectCategoriesError
    \/ SelectElementsOk
    \/ SelectElementsError
    \/ SelectViewsOk
    \/ SelectViewsCancel
    \/ SelectViewsError
    \/ StartTransaction
    \/ SkipTagging
    \/ BeginView
    \/ ViewError
    \/ EndView
    \/ Commit
    \/ CommitError
    \/ SkipAlreadyTagged
    \/ SkipNotVisible
    \/ DeclineReturn
    \/ DeclineExit
    \/ SkipNoBoundingBox
    \/ CreateTag
    \/ ElementError
    \/ NewRun

Spec == Init /\ [][Next]_vars

(* ------------------------------------------------------------------ *)
(* Properties                                                          *)
(* ------------------------------------------------------------------ *)
\* Tags the tagger created in execution r that are in view v now
RunTags(v, r) == {t \in tags[v] : t.run = r}

AllRunTags(r) == UNION {RunTags(v, r) : v \in AllViews}

\* The tags view v held when the current execution started on it
TagsAtStart(v) == {t \in tags[v] : t.run < run}

IsBlank(text) == \A i \in 1 .. Len(text) : text[i] = " "

ErrorLines == {"Error in select_categories", "Error in select_elements",
               "Error in select_views", "General Error"}

TransactionRun == txn # "none"

\* C1: an element referenced by a tag that the view held when the tagger started
\* on it, and that the host's reader returns (the tag can be read), gets no tag
\* created in that view, under every toggle setting; this includes the tags a
\* previous execution left in the view.
C1_NoSecondTag ==
    [][created' > created =>
         ~\E t \in TagsAtStart(CurView) : t.readable /\ CurElem \in t.elems]_vars

\* C1 witness: in the second execution an element that kept its tag from the
\* first execution has just been passed over in that view.
C1_Witness ==
    /\ run = 2
    /\ pc = "elem"
    /\ idx > 1
    /\ \E t \in RunTags(CurView, 1) : selected_elements[idx - 1] \in t.elems
    /\ RunTags(CurView, 2) = {}
    /\ toggle_settings.toggle_visibility = FALSE
    /\ elementErrors = 0

\* C2: a run that started the transaction has, when it ends, ended the
\* transaction exactly once, by commit or by rollback; after a rollback none of
\* the run's tags is in any view, after a commit every tag created and not
\* deleted is.
C2_TransactionEndedOnce ==
    (pc = "done" /\ TransactionRun) =>
        /\ txn \in {"committed", "rolledback"}
        /\ txEnds = 1
        /\ txn = "rolledback" => AllRunTags(run) = {}
        /\ txn = "committed" => Cardinality(AllRunTags(run)) = created - deleted

C4_TransactionOnlyAfterSelections ==
    /\ (TransactionRun \/ created > 0 \/ deleted > 0) =>
          /\ catDialog = "confirmed"
          /\ viewDialog = "confirmed"
          /\ selected_elements # <<>>
          /\ selected_views # <<>>
    /\ (catDialog = "cancelled" \/ viewDialog = "cancelled") =>
          /\ pc = "done"
          /\ txn = "none"
          /\ created = 0
          /\ deleted = 0
          /\ log \cap ErrorLines = {}
          /\ elementErrors = 0
          /\ tags = snapshot

\* C4 witness: the view dialog was cancelled after elements had been collected.
C4_Witness ==
    /\ pc = "done"
    /\ viewDialog = "cancelled"
    /\ selected_elements # <<>>

\* C5: a tag made by the tagger has a leader exactly when its element is a
\* window, its view a floor plan and tag_windows_in_plan is on; it is always
\* add-by-category, horizontal, and placed at the midpoint of the element's
\* bounding box.
C5_LeaderOnlyForWindowsInPlan ==
    \A v \in AllViews : \A t \in tags[v] :
        t.run > 0 =>
            \A e \in t.elems :
                /\ t.leader <=> (/\ Category(e) = "Windows"
                                 /\ ViewType(v) = "FloorPlan"
                                 /\ toggle_settings.tag_windows_in_plan)
                /\ t.mode = "TM_ADDBY_CATEGORY"
                /\ t.orient = "Horizontal"
                /\ \A i \in 1 .. 3 :
                      2 * t.point[i] = BoundingBox(e).Min[i] + BoundingBox(e).Max[i]

\* C5 witness: a window tagged with a leader in a floor plan next to a door
\* tagged without one, and a window tagged without one in an elevation.
C5_Witness ==
    /\ \E t \in AllRunTags(run) : t.leader
    /\ \E t \in RunTags(1, run) : ~t.leader
    /\ \E t \in RunTags(2, run) : \E e \in t.elems : Category(e) = "Windows" /\ ~t.leader

C7_NoBoundingBoxNoTag ==
    /\ [](\A v \in AllViews : \A t \in tags[v] :
             t.run > 0 => t.elems \cap bboxAbsent = {})
    /\ [][(InLoop /\ CurElem \in bboxAbsent) =>
             /\ created' = created
             /\ tags' = tags
             /\ txn' = txn
             /\ ~(promptCat' # None /\ promptCat' \notin ignored_tag_types') =>
                   (pc' = "elem" /\ idx' = idx + 1 /\ vi' = vi)]_vars

\* C7 witness: an element without a bounding box was passed over without any
\* error and the loop stands at the element after it.
C7_Witness ==
    /\ pc = "elem"
    /\ idx > 1
    /\ idx <= Len(selected_elements)
    /\ selected_elements[idx - 1] \in bboxAbsent
    /\ ~IsAlreadyTagged(selected_elements[idx - 1], already_tagged_element_ids)
    /\ ~toggle_settings.toggle_visibility
    /\ elementErrors = 0

\* The scenario of C8: the tagger ran, all toggles are off, a tag family is
\* loaded for every category, every collected element has a bounding box, none
\* is referenced by a tag that was in a selected view before the run, and no
\* host call failed.
C8_Scenario ==
    /\ TransactionRun
    /\ ~toggle_settings.toggle_visibility
    /\ ~toggle_settings.check_blank_tag
    /\ ~toggle_settings.tag_windows_in_plan
    /\ \A c \in Categories : tagTypeLoaded[c]
    /\ Range(selected_elements) \cap bboxAbsent = {}
    /\ \A v \in Range(selected_views) : \A t \in snapshot[v] :
          t.elems \cap Range(selected_elements) = {}
    /\ log = {}
    /\ elementErrors = 0

\* C8: a run in that scenario ends committed, having created exactly one tag per
\* (selected view, collected element) pair and deleted none.
C8_OneTagPerPair ==
    (pc = "done" /\ C8_Scenario) =>
        /\ txn = "committed"
        /\ created = Len(selected_views) * Len(selected_elements)
        /\ deleted = 0
        /\ \A v \in Range(selected_views) : \A e \in Range(selected_elements) :
              Cardinality({t \in RunTags(v, run) : t.elems = {e}}) = 1
        /\ Cardinality(AllRunTags(run)) = created

\* C8 witness: such a run over two views and three elements has ended.
C8_Witness ==
    /\ pc = "done"
    /\ C8_Scenario
    /\ Len(selected_views) >= 2
    /\ Len(selected_elements) >= 3
    /\ created = 6

\* C9: an exception inside one iteration keeps the loop in the same view on the
\* next element, keeps every tag and leaves the transaction open; a run with
\* such errors in which nobody declined a prompt and no call outside the
\* iterations failed processes every element in every view and is committed.
C9_ElementErrorIsolated ==
    /\ [][elementErrors' > elementErrors =>
             /\ pc' = "elem"
             /\ vi' = vi
             /\ idx' = idx + 1
             /\ txn' = "started"
             /\ \A v \in AllViews : tags[v] \subseteq tags'[v]
             /\ "General Error" \notin log']_vars
    /\ []((pc = "done" /\ TransactionRun /\ ~declined /\ "General Error" \notin log) =>
             /\ txn = "committed"
             /\ invocations = Len(selected_views)
             /\ processed = Len(selected_views) * Len(selected_elements))

\* C9 witness: a committed run over two views in which an element raised and
\* other elements were tagged.
C9_Witness ==
    /\ pc = "done"
    /\ txn = "committed"
    /\ elementErrors > 0
    /\ Len(selected_views) >= 2
    /\ AllRunTags(run) # {}

\* C10: the prompt is never shown for a category already approved in this run;
\* within a run the approved set only grows, and a category enters it only in
\* the step in which the prompt for it was answered "yes"; so the approvals of a
\* run number at most the categories of the collected elements.
C10_ApprovedOnce ==
    /\ [][(processed' > processed /\ promptCat' # None) =>
             promptCat' \notin ignored_tag_types]_vars
    /\ [][run' = run => ignored_tag_types \subseteq ignored_tag_types']_vars
    /\ [][\A c \in ignored_tag_types' \ ignored_tag_types :
             promptCat' = c /\ approvals' = approvals + 1]_vars
    /\ [](/\ approvals = Cardinality(ignored_tag_types)
          /\ approvals <= Cardinality({Category(e) : e \in Range(selected_elements)}))

\* C10 witness: in a later view, an element of a category approved earlier in
\* the run, with no tag family loaded, was tagged without a prompt.
C10_Witness ==
    /\ pc = "elem"
    /\ vi > 1
    /\ idx > 1
    /\ promptCat = None
    /\ approvals = 1
    /\ ~tagTypeLoaded[Category(selected_elements[idx - 1])]
    /\ Category(selected_elements[idx - 1]) \in ignored_tag_types
    /\ \E t \in RunTags(CurView, run) : t.elems = {selected_elements[idx - 1]}

====
